---- MODULE Spec2Model ----
(***************************************************************************)
(* IndySdkPoolService (packages/indy-sdk/src/ledger/IndySdkPoolService.ts) *)
(* as a state machine: the pool registry (setPools, connectToPools,        *)
(* getPoolForNamespace), the resolution of a DID over all configured pools *)
(* (getPoolForDid) and the write path with the transaction author          *)
(* agreement (submitWriteRequest); and sortRequestedCredentials            *)
(* (packages/core/src/modules/proofs/formats/indy/util).                   *)
(***************************************************************************)
EXTENDS Integers, Sequences, FiniteSets, TLC

\* ------------------------------------------------------------ bounds

\* Longest list of pool configurations handed to setPools.
MaxPools == 2

\* Identifiers a pool configuration may carry (unique within one list).
PoolIds == {"A", "B", "C"}

\* The DIDs that are resolved.
Dids == {"did1"}

\* Concurrent getPoolForDid calls.
Resolvers == {"r1", "r2"}

\* Verification keys a ledger may answer with.
VerKeys == {"derived", "unrelated"}

\* Concurrent submitWriteRequest calls.
Writers == {"w1", "w2"}

\* Versions of a transaction author agreement.
TaaVersions == {"1.0", "2.0"}

\* Names a pool configuration may give as acceptance mechanism, and the keys of the
\* ledger's acceptance mechanisms list (aml).
MechanismNames == {"wallet_agreement", "on_file", "toString"}

AmlKeySets == {{"wallet_agreement"}, {"wallet_agreement", "on_file"}}

\* The names every JavaScript object inherits from Object.prototype (those among
\* MechanismNames).
ObjectPrototypeKeys == {"toString"}

\* ------------------------------------------------------------ values

NoValue == [kind |-> "undefined"]

NoTaaConfig == [kind |-> "undefined"]

TaaConfig(version, mechanism) ==
    [kind |-> "taa", version |-> version, acceptanceMechanism |-> mechanism]

TaaConfigs == {NoTaaConfig} \cup {TaaConfig(v, m) : v \in TaaVersions, m \in MechanismNames}

\* IndySdkPoolConfig: id, isProduction, indyNamespace, transactionAuthorAgreement
PoolConfigWith(id, prod, taa) ==
    [id |-> id, isProduction |-> prod, indyNamespace |-> "", transactionAuthorAgreement |-> taa]

PoolConfig(id, prod) == PoolConfigWith(id, prod, NoTaaConfig)

RECURSIVE DistinctLists(_, _)
DistinctLists(S, n) ==
    IF n = 0 THEN {<<>>}
    ELSE LET shorter == DistinctLists(S, n - 1)
         IN  shorter \cup
             {Append(l, x) : l \in {m \in shorter : Len(m) = n - 1}, x \in S}

HasDistinctIds(l) == \A i, j \in 1..Len(l) : l[i].id = l[j].id => i = j

\* What setPools is called with by the resolution scenarios.
ResolvePoolLists ==
    {l \in DistinctLists({PoolConfig(id, prod) : id \in PoolIds, prod \in BOOLEAN}, MaxPools) :
        HasDistinctIds(l)}

\* What setPools is called with by the write scenarios: pool A with every author
\* agreement configuration, alone or before a pool B that has none.
WritePoolLists ==
    {<<PoolConfigWith("A", TRUE, taa)>> : taa \in TaaConfigs} \cup
    {<<PoolConfigWith("A", TRUE, taa), PoolConfig("B", FALSE)>> : taa \in TaaConfigs}

\* ------------------------------------------------------------ state

VARIABLES
    pools,              \* this.pools: the configured pools, in order of preference
    cache,              \* the agent's cache, key `IndySdkPoolService:${did}`
    rpc,                \* where each getPoolForDid call stands
    rdid,               \* its did argument
    cachedNymResponse,  \* its local cachedNymResponse
    rpool,              \* its local pool (the pool of the cached response)
    didResponses,       \* the promises of its getDidFromPool calls, one per pool
    settleOrder,        \* the pool indices in the order their promises settled
    queries,            \* read requests it submitted, per pool index
    value,              \* its local value (the chosen response)
    ret,                \* what the call returned or threw
    after,              \* history: what `chosen` held for its did when the call was made
    chosen              \* history: per did, the pools that calls that returned have chosen
                        \* and that have been configured ever since

VARIABLES
    authorAgreement,    \* pool.authorAgreement of each configured pool, by pool id
    wpc,                \* where each submitWriteRequest call stands
    wpool,              \* its pool argument
    wseen,              \* what it read from pool.authorAgreement for the memoization test
    taaResponse,        \* its local taaResponse.result.data
    amlResponse,        \* its local acceptanceMechanismResponse.result.data (the keys of aml)
    wtaa,               \* the authorAgreement its getTransactionAuthorAgreement returned
    wqueries,           \* read requests it submitted for the author agreement
    signCalls,          \* the requests it handed to signRequest
    submitCalls,        \* the requests it handed to pool.submitWriteRequest
    wret                \* what the call returned or threw

VARIABLES
    cpc,                \* where the connectToPools call stands
    attempts,           \* the pool indices whose connect() it has called, in call order
    inProgress,         \* the pool indices whose connect() has not answered yet
    handleArray,        \* its local handleArray
    cret,               \* what the call returned or threw
    nspc,               \* whether a getPoolForNamespace call has just answered
    nsarg,              \* its indyNamespace argument
    nsret,              \* what the call returned or threw
    sortpc,             \* whether sortRequestedCredentials has been called
    credentials,        \* the array handed to sortRequestedCredentials
    sorted              \* the array it returned

xvars == <<cpc, attempts, inProgress, handleArray, cret, nspc, nsarg, nsret, sortpc, credentials, sorted>>

wvars == <<authorAgreement, wpc, wpool, wseen, taaResponse, amlResponse, wtaa, wqueries, signCalls, submitCalls, wret>>

rvars == <<rpc, rdid, cachedNymResponse, rpool, didResponses, settleOrder, queries, value, ret, after, chosen>>

vars == <<pools, cache, rvars, wvars, xvars>>

\* ------------------------------------------------------------ errors and results

\* An error object raised by the read of pool `id`: two errors are the same
\* object only when they come from the same read.
ErrorFrom(class, id) == [class |-> class, from |-> id]

NoCause == [class |-> "undefined", from |-> ""]

Thrown(class, cause) == [kind |-> "error", class |-> class, cause |-> cause]

Returned(did, pool) == [kind |-> "ok", did |-> did, pool |-> pool]

\* GetNymResponse parsed from the reply of pool `id`.
NymResponse(did, verkey, id) == [did |-> did, verkey |-> verkey, reply |-> id]

CachedDidResponse(nymResponse, poolId) ==
    [kind |-> "entry", nymResponse |-> nymResponse, poolId |-> poolId]

Pending == [status |-> "pending"]

Fulfilled(v) == [status |-> "fulfilled", value |-> v]

Rejected(e) == [status |-> "rejected", reason |-> e]

\* What the ledger client does with one read request (submitReadRequest followed by
\* parseGetNymResponse): a reply carrying a verkey, or an error.
ReadOutcomes ==
    {[kind |-> "reply", verkey |-> k] : k \in VerKeys} \cup
    {[kind |-> "LedgerNotFound"], [kind |-> "IndyError"], [kind |-> "Error"]}

\* ------------------------------------------------------------ pure parts

IsSelfCertifiedDid(did, verkey) == verkey = "derived"

\* getDidFromPool once its read request has an outcome.
GetDidFromPool(did, pool, outcome) ==
    CASE outcome.kind = "reply" ->
            Fulfilled([did |-> NymResponse(did, outcome.verkey, pool.id), pool |-> pool])
      [] outcome.kind = "LedgerNotFound" ->
            Rejected(ErrorFrom("IndySdkPoolNotFoundError", pool.id))
      [] outcome.kind = "IndyError" ->
            Rejected(ErrorFrom("IndySdkError", pool.id))
      [] OTHER ->
            Rejected(ErrorFrom("Error", pool.id))

\* getDidFromPool when buildGetNymRequest throws: no read request is submitted.
GetDidFromPoolBuildFailed(pool) == Rejected(ErrorFrom("IndySdkError", pool.id))

IsSettled(r) == r.status # "pending"


\* allSettled: resolves once every promise has settled, with the results in the
\* order of the promises it was given.
AllSettledReady(responses) == \A i \in 1..Len(responses) : IsSettled(responses[i])

AllSettled(responses, order) == responses

\* Mutant: the wait ends with the first promise that fulfils (Promise.any).
SettledDidResponsesReadyOnFirstSuccess(responses) ==
    \/ \E i \in 1..Len(responses) : responses[i].status = "fulfilled"
    \/ \A i \in 1..Len(responses) : IsSettled(responses[i])

\* getSettledDidResponsesFromPools returns once its await of allSettled is over.
SettledDidResponsesReady(responses) == AllSettledReady(responses)

OnlyFulfilled(results) == SelectSeq(results, LAMBDA r : r.status = "fulfilled")

OnlyRejected(results) == SelectSeq(results, LAMBDA r : r.status = "rejected")

\* Mutant: the results are taken in the order in which the promises settled.
GetSettledDidResponsesInSettleOrder(responses, order) ==
    LET settled == [k \in 1..Len(order) |-> responses[order[k]]]
    IN  [successful |-> OnlyFulfilled(settled), rejected |-> OnlyRejected(settled)]

GetSettledDidResponsesFromPools(responses, order) ==
    LET settled == AllSettled(responses, order)
    IN  [successful |-> OnlyFulfilled(settled), rejected |-> OnlyRejected(settled)]

IsNotFound(e) == e.reason.class = "IndySdkPoolNotFoundError"

\* Mutant: instanceof is applied to the settled result instead of its reason, so no
\* rejection counts as a not-found.
NoSuccessErrorOnResult(rejected) == Thrown("IndySdkPoolError", rejected[1].reason)

\* Mutant: the cause is the first rejection, not the first that is not a not-found.
NoSuccessErrorFirstRejected(rejected) ==
    IF \A i \in 1..Len(rejected) : IsNotFound(rejected[i])
    THEN Thrown("IndySdkPoolNotFoundError", NoCause)
    ELSE Thrown("IndySdkPoolError", rejected[1].reason)

\* The branch successful.length === 0 of getPoolForDid.
NoSuccessError(rejected) ==
    LET allNotFound == \A i \in 1..Len(rejected) : IsNotFound(rejected[i])
        rejectedOtherThanNotFound == SelectSeq(rejected, LAMBDA e : ~IsNotFound(e))
    IN  IF allNotFound
        THEN Thrown("IndySdkPoolNotFoundError", NoCause)
        ELSE Thrown("IndySdkPoolError", rejectedOtherThanNotFound[1].reason)

\* Array.prototype.find, applied to the elements that satisfy the predicate:
\* the first of them, or undefined.
Find(hits) ==
    IF hits = <<>> THEN NoValue ELSE hits[1]

\* Mutant: production pools are preferred before self-certification is looked at.
PreferredValueProductionFirst(successful) ==
    LET production == SelectSeq(successful, LAMBDA s : s.value.pool.isProduction)
        selfCertified == Find(SelectSeq(successful,
                            LAMBDA r : IsSelfCertifiedDid(r.value.did.did, r.value.did.verkey)))
    IN  IF Len(production) >= 1 THEN production[1].value
        ELSE IF selfCertified # NoValue THEN selfCertified.value
        ELSE successful[1].value

\* Mutant: without a self-certified response the first success is taken, whatever
\* its pool.
PreferredValueFirstSuccess(successful) ==
    LET selfCertified == Find(SelectSeq(successful,
                            LAMBDA r : IsSelfCertifiedDid(r.value.did.did, r.value.did.verkey)))
    IN  IF selfCertified # NoValue THEN selfCertified.value ELSE successful[1].value

\* The choice among the successful responses.
PreferredValue(successful) ==
    LET selfCertified == Find(SelectSeq(successful,
                            LAMBDA r : IsSelfCertifiedDid(r.value.did.did, r.value.did.verkey)))
        production == SelectSeq(successful, LAMBDA s : s.value.pool.isProduction)
        nonProduction == SelectSeq(successful, LAMBDA s : ~s.value.pool.isProduction)
        productionOrNonProduction == IF Len(production) >= 1 THEN production ELSE nonProduction
    IN  IF selfCertified # NoValue THEN selfCertified.value
        ELSE productionOrNonProduction[1].value

\* Mutant: the cached pool id is trusted without looking it up in this.pools.
FindPoolTrusting(list, cached) ==
    IF cached = NoValue THEN NoValue ELSE PoolConfig(cached.poolId, TRUE)

\* this.pools.find((pool) => pool.id === cachedNymResponse?.poolId)
FindPool(list, cached) ==
    IF cached = NoValue THEN NoValue
    ELSE Find(SelectSeq(list, LAMBDA pool : pool.id = cached.poolId))

\* Mutant: a cached response is used only when its pool is a production pool.
CacheHitProductionOnly(cached, pool) ==
    cached # NoValue /\ pool # NoValue /\ pool.isProduction

CacheHit(cached, pool) == cached # NoValue /\ pool # NoValue

\* Mutant: the entry names the first configured pool.
CacheEntryForFirstPool(v) == CachedDidResponse(v.did, pools[1].id)

CacheEntryFor(v) == CachedDidResponse(v.did, v.pool.id)

\* ------------------------------------------------------------ the registry

PoolIdsOf(list) == {list[i].id : i \in 1..Len(list)}

\* setPools. The registry's list is set while no resolution is in flight (the
\* registry's precondition: the list is not replaced under a running resolution).
SetPools(poolConfigs) ==
    /\ \A p \in Resolvers : rpc[p] = "idle"
    /\ \A w \in Writers : wpc[w] = "idle"
    /\ cpc = "idle"
    /\ nspc = "idle"
    /\ pools' = poolConfigs
    /\ authorAgreement' = [id \in PoolIds |-> NoValue]
    /\ chosen' = [d \in Dids |-> chosen[d] \cap PoolIdsOf(poolConfigs)]
    /\ UNCHANGED <<cache, rpc, rdid, cachedNymResponse, rpool, didResponses, settleOrder,
                   queries, value, ret, after>>
    /\ UNCHANGED <<wpc, wpool, wseen, taaResponse, amlResponse, wtaa, wqueries, signCalls, submitCalls, wret>>
    /\ UNCHANGED xvars

\* ------------------------------------------------------------ getPoolForDid

Indices(s) == 1..Len(s)

Ascending(S, n) == SelectSeq([i \in 1..n |-> i], LAMBDA i : i \in S)

\* Mutant: the call goes on to the cache without looking at the number of pools.
NoPoolsConfiguredUnchecked(list) == FALSE

\* pools.length === 0
NoPoolsConfigured(list) == Len(list) = 0

\* The call is made: without pools it throws at once, otherwise it awaits cache.get.
GetPoolForDid(p, did) ==
    /\ rpc[p] = "idle"
    /\ rdid' = [rdid EXCEPT ![p] = did]
    /\ after' = [after EXCEPT ![p] = chosen[did]]
    /\ IF NoPoolsConfigured(pools)
       THEN /\ ret' = [ret EXCEPT ![p] = Thrown("IndySdkPoolNotConfiguredError", NoCause)]
            /\ rpc' = [rpc EXCEPT ![p] = "done"]
       ELSE /\ rpc' = [rpc EXCEPT ![p] = "get"]
            /\ UNCHANGED ret
    /\ UNCHANGED <<pools, cache, cachedNymResponse, rpool, didResponses, settleOrder, queries, value, chosen, wvars, xvars>>

\* cache.get has answered: the cached response is returned when its pool is still
\* configured; otherwise getDidFromPool is called for every pool. A call whose
\* buildGetNymRequest throws rejects without submitting a read request.
CacheGet(p) ==
    /\ rpc[p] = "get"
    /\ LET cached == cache[rdid[p]]
           pool == FindPool(pools, cached)
       IN  /\ cachedNymResponse' = [cachedNymResponse EXCEPT ![p] = cached]
           /\ rpool' = [rpool EXCEPT ![p] = pool]
           /\ IF CacheHit(cached, pool)
              THEN /\ ret' = [ret EXCEPT ![p] = Returned(cached.nymResponse, pool)]
                   /\ rpc' = [rpc EXCEPT ![p] = "done"]
                   /\ chosen' = [chosen EXCEPT ![rdid[p]] = @ \cup {pool.id}]
                   /\ UNCHANGED <<didResponses, settleOrder, queries>>
              ELSE /\ \E failed \in SUBSET Indices(pools) :
                        /\ didResponses' = [didResponses EXCEPT ![p] =
                              [i \in Indices(pools) |->
                                  IF i \in failed THEN GetDidFromPoolBuildFailed(pools[i])
                                  ELSE Pending]]
                        /\ queries' = [queries EXCEPT ![p] =
                              [i \in Indices(pools) |-> IF i \in failed THEN 0 ELSE 1]]
                        /\ settleOrder' = [settleOrder EXCEPT ![p] = Ascending(failed, Len(pools))]
                   /\ rpc' = [rpc EXCEPT ![p] = "settling"]
                   /\ UNCHANGED <<ret, chosen>>
    /\ UNCHANGED <<pools, cache, rdid, value, after, wvars, xvars>>

\* The read request of one pool gets its outcome and that getDidFromPool settles.
SettleDidFromPool(p, i, outcome) ==
    /\ rpc[p] = "settling"
    /\ i \in Indices(didResponses[p])
    /\ didResponses[p][i] = Pending
    /\ didResponses' = [didResponses EXCEPT ![p][i] = GetDidFromPool(rdid[p], pools[i], outcome)]
    /\ settleOrder' = [settleOrder EXCEPT ![p] = Append(@, i)]
    /\ UNCHANGED <<pools, cache, rpc, rdid, cachedNymResponse, rpool, queries, value, ret, after, chosen, wvars, xvars>>

\* Mutant: when nothing succeeded the cached response of the did is dropped before
\* the error is thrown.
ChooseResponseInvalidating(p) ==
    /\ rpc[p] = "settling"
    /\ SettledDidResponsesReady(didResponses[p])
    /\ LET r == GetSettledDidResponsesFromPools(didResponses[p], settleOrder[p])
       IN  IF Len(r.successful) = 0
           THEN /\ ret' = [ret EXCEPT ![p] = NoSuccessError(r.rejected)]
                /\ rpc' = [rpc EXCEPT ![p] = "done"]
                /\ cache' = [cache EXCEPT ![rdid[p]] = NoValue]
                /\ UNCHANGED value
           ELSE /\ value' = [value EXCEPT ![p] = PreferredValue(r.successful)]
                /\ rpc' = [rpc EXCEPT ![p] = "set"]
                /\ UNCHANGED <<ret, cache>>
    /\ UNCHANGED <<pools, rdid, cachedNymResponse, rpool, didResponses, settleOrder, queries, after, chosen, wvars, xvars>>

\* allSettled has resolved: throw when nothing succeeded, else choose and call
\* cache.set.
ChooseResponse(p) ==
    /\ rpc[p] = "settling"
    /\ SettledDidResponsesReady(didResponses[p])
    /\ LET r == GetSettledDidResponsesFromPools(didResponses[p], settleOrder[p])
       IN  IF Len(r.successful) = 0
           THEN /\ ret' = [ret EXCEPT ![p] = NoSuccessError(r.rejected)]
                /\ rpc' = [rpc EXCEPT ![p] = "done"]
                /\ UNCHANGED value
           ELSE /\ value' = [value EXCEPT ![p] = PreferredValue(r.successful)]
                /\ rpc' = [rpc EXCEPT ![p] = "set"]
                /\ UNCHANGED ret
    /\ UNCHANGED <<pools, cache, rdid, cachedNymResponse, rpool, didResponses, settleOrder, queries, after, chosen, wvars, xvars>>

\* cache.set writes the entry and the call returns.
CacheSet(p) ==
    /\ rpc[p] = "set"
    /\ cache' = [cache EXCEPT ![rdid[p]] = CacheEntryFor(value[p])]
    /\ ret' = [ret EXCEPT ![p] = Returned(value[p].did, value[p].pool)]
    /\ rpc' = [rpc EXCEPT ![p] = "done"]
    /\ chosen' = [chosen EXCEPT ![rdid[p]] = @ \cup {value[p].pool.id}]
    /\ UNCHANGED <<pools, rdid, cachedNymResponse, rpool, didResponses, settleOrder, queries, value, after, wvars, xvars>>

\* The caller has taken the result; the call's locals are gone.
Forget(p) ==
    /\ rpc[p] = "done"
    /\ rpc' = [rpc EXCEPT ![p] = "idle"]
    /\ cachedNymResponse' = [cachedNymResponse EXCEPT ![p] = NoValue]
    /\ rpool' = [rpool EXCEPT ![p] = NoValue]
    /\ didResponses' = [didResponses EXCEPT ![p] = <<>>]
    /\ settleOrder' = [settleOrder EXCEPT ![p] = <<>>]
    /\ queries' = [queries EXCEPT ![p] = <<>>]
    /\ value' = [value EXCEPT ![p] = NoValue]
    /\ ret' = [ret EXCEPT ![p] = NoValue]
    /\ after' = [after EXCEPT ![p] = {}]
    /\ UNCHANGED <<pools, cache, rdid, chosen, wvars, xvars>>

\* ------------------------------------------------------------ submitWriteRequest

Null == [kind |-> "null"]

\* pool.authorAgreement once fetched and present: the agreement with the ledger's
\* acceptance mechanisms list.
AuthorAgreement(version, amlKeys) ==
    [kind |-> "taa", version |-> version, acceptanceMechanisms |-> [aml |-> amlKeys]]

\* The request the caller hands in, and the same request with an acceptance appended.
LedgerRequest == [operation |-> "write", taaAcceptance |-> NoValue]

WithTaaAcceptance(request, version, mechanism) ==
    [request EXCEPT !.taaAcceptance =
        [kind |-> "acceptance", version |-> version, mechanism |-> mechanism, time |-> "now"]]

WriteThrown(class, message) == [kind |-> "error", class |-> class, message |-> message]

WriteOk(request) == [kind |-> "ok", request |-> request]

\* throw isIndyError(error) ? new IndySdkError(error) : error
Translate(failure) ==
    IF failure = "IndyError" THEN WriteThrown("IndySdkError", "") ELSE WriteThrown("Error", "")

Failures == {"IndyError", "Error"}

\* JavaScript's `key in object` for an object parsed from JSON: its own keys and the
\* ones it inherits from Object.prototype.
JsIn(key, ownKeys) == key \in ownKeys \cup ObjectPrototypeKeys

\* Mutant: a pool without author agreement configuration sends the request as it is,
\* like a ledger without author agreement.
AppendTaaWithoutConfiguration(pool, request, agreement, appended) ==
    LET taa == pool.transactionAuthorAgreement
    IN  IF agreement = Null \/ taa = NoTaaConfig THEN WriteOk(request)
        ELSE IF agreement.version # taa.version
                \/ ~JsIn(taa.acceptanceMechanism, agreement.acceptanceMechanisms.aml)
        THEN WriteThrown("IndySdkPoolError", "Unable to satisfy matching TAA")
        ELSE IF appended # "ok" THEN Translate(appended)
        ELSE WriteOk(WithTaaAcceptance(request, taa.version, taa.acceptanceMechanism))

\* Mutant: the configured acceptance is appended although the ledger has no author
\* agreement.
AppendTaaWithoutAgreement(pool, request, agreement, appended) ==
    LET taa == pool.transactionAuthorAgreement
    IN  IF taa = NoTaaConfig
        THEN IF agreement = Null THEN WriteOk(request)
             ELSE WriteThrown("IndySdkPoolError",
                "Please, specify a transaction author agreement with version and acceptance mechanism")
        ELSE IF agreement # Null
                /\ (agreement.version # taa.version
                    \/ ~JsIn(taa.acceptanceMechanism, agreement.acceptanceMechanisms.aml))
        THEN WriteThrown("IndySdkPoolError", "Unable to satisfy matching TAA")
        ELSE IF appended # "ok" THEN Translate(appended)
        ELSE WriteOk(WithTaaAcceptance(request, taa.version, taa.acceptanceMechanism))

\* appendTaa after getTransactionAuthorAgreement has answered; `appended` is what
\* appendTxnAuthorAgreementAcceptanceToRequest does ("ok" or a failure).
AppendTaa(pool, request, agreement, appended) ==
    LET taa == pool.transactionAuthorAgreement
    IN  IF agreement = Null THEN WriteOk(request)
        ELSE IF taa = NoTaaConfig
        THEN WriteThrown("IndySdkPoolError",
                "Please, specify a transaction author agreement with version and acceptance mechanism")
        ELSE IF agreement.version # taa.version
                \/ ~JsIn(taa.acceptanceMechanism, agreement.acceptanceMechanisms.aml)
        THEN WriteThrown("IndySdkPoolError", "Unable to satisfy matching TAA")
        ELSE IF appended # "ok" THEN Translate(appended)
        ELSE WriteOk(WithTaaAcceptance(request, taa.version, taa.acceptanceMechanism))

\* The rest of the synchronous path of submitWriteRequest once the author agreement
\* is known: appendTaa, then signRequest is called with its result.
AppendTaaAndSign(w, pool, agreement) ==
    /\ wtaa' = [wtaa EXCEPT ![w] = agreement]
    /\ \E appended \in {"ok"} \cup Failures :
          LET r == AppendTaa(pool, LedgerRequest, agreement, appended)
          IN  IF r.kind = "error"
              THEN /\ wret' = [wret EXCEPT ![w] = r]
                   /\ wpc' = [wpc EXCEPT ![w] = "done"]
                   /\ UNCHANGED signCalls
              ELSE /\ signCalls' = [signCalls EXCEPT ![w] = Append(@, r.request)]
                   /\ wpc' = [wpc EXCEPT ![w] = "signing"]
                   /\ UNCHANGED wret

\* Mutant: a pool.authorAgreement that is null is fetched again.
MemoizedWhenPresent(agreement) == agreement # NoValue /\ agreement # Null

\* pool.authorAgreement !== undefined
Memoized(agreement) == agreement # NoValue

\* The call is made: getTransactionAuthorAgreement answers from pool.authorAgreement
\* when it is not undefined, otherwise it builds and submits the agreement query.
SubmitWriteRequest(w, i) ==
    /\ wpc[w] = "idle"
    /\ i \in Indices(pools)
    /\ wpool' = [wpool EXCEPT ![w] = pools[i]]
    /\ wseen' = [wseen EXCEPT ![w] = authorAgreement[pools[i].id]]
    /\ IF Memoized(authorAgreement[pools[i].id])
       THEN /\ AppendTaaAndSign(w, pools[i], authorAgreement[pools[i].id])
            /\ UNCHANGED wqueries
       ELSE /\ \E built \in {"ok"} \cup Failures :
                 IF built = "ok"
                 THEN /\ wqueries' = [wqueries EXCEPT ![w] = 1]
                      /\ wpc' = [wpc EXCEPT ![w] = "taaRead"]
                      /\ UNCHANGED wret
                 ELSE /\ wret' = [wret EXCEPT ![w] = Translate(built)]
                      /\ wpc' = [wpc EXCEPT ![w] = "done"]
                      /\ UNCHANGED wqueries
            /\ UNCHANGED <<wtaa, signCalls>>
    /\ UNCHANGED <<pools, cache, rvars, xvars, authorAgreement, taaResponse, amlResponse, submitCalls>>

\* What the ledger answers to the agreement query: no agreement, or one of a version.
TaaData == {Null} \cup {[kind |-> "taa", version |-> v] : v \in TaaVersions}

\* The agreement query has its outcome; on a reply the acceptance mechanisms query
\* is built and submitted.
TaaRead(w, failed, taaData) ==
    /\ wpc[w] = "taaRead"
    /\ IF failed \in Failures
       THEN /\ wret' = [wret EXCEPT ![w] = Translate(failed)]
            /\ wpc' = [wpc EXCEPT ![w] = "done"]
            /\ UNCHANGED <<taaResponse, wqueries>>
       ELSE \E built \in {"ok"} \cup Failures :
              IF built = "ok"
              THEN /\ taaResponse' = [taaResponse EXCEPT ![w] = taaData]
                   /\ wqueries' = [wqueries EXCEPT ![w] = 2]
                   /\ wpc' = [wpc EXCEPT ![w] = "amlRead"]
                   /\ UNCHANGED wret
              ELSE /\ wret' = [wret EXCEPT ![w] = Translate(built)]
                   /\ wpc' = [wpc EXCEPT ![w] = "done"]
                   /\ UNCHANGED <<taaResponse, wqueries>>
    /\ UNCHANGED <<pools, cache, rvars, xvars, authorAgreement, wpool, wseen, amlResponse, wtaa, signCalls, submitCalls>>

\* Mutant: the agreement is stored without the acceptance mechanisms of the ledger.
FetchedAgreementWithoutMechanisms(taaData, amlKeys) ==
    IF taaData = Null THEN Null ELSE AuthorAgreement(taaData.version, {})

\* The value getTransactionAuthorAgreement stores in pool.authorAgreement.
FetchedAgreement(taaData, amlKeys) ==
    IF taaData = Null THEN Null ELSE AuthorAgreement(taaData.version, amlKeys)

\* Mutant: when the acceptance mechanisms query fails the ledger is recorded as
\* having no author agreement.
AmlReadStoringFailure(w, failed, amlKeys) ==
    /\ wpc[w] = "amlRead"
    /\ IF failed \in Failures
       THEN /\ wret' = [wret EXCEPT ![w] = Translate(failed)]
            /\ wpc' = [wpc EXCEPT ![w] = "done"]
            /\ authorAgreement' = [authorAgreement EXCEPT ![wpool[w].id] = Null]
            /\ UNCHANGED <<amlResponse, wtaa, signCalls>>
       ELSE LET agreement == FetchedAgreement(taaResponse[w], amlKeys)
            IN  /\ amlResponse' = [amlResponse EXCEPT ![w] = amlKeys]
                /\ authorAgreement' = [authorAgreement EXCEPT ![wpool[w].id] = agreement]
                /\ AppendTaaAndSign(w, wpool[w], agreement)
    /\ UNCHANGED <<pools, cache, rvars, xvars, wpool, wseen, taaResponse, wqueries, submitCalls>>

\* The acceptance mechanisms query has its outcome; on a reply pool.authorAgreement
\* is assigned and the call goes on with it.
AmlRead(w, failed, amlKeys) ==
    /\ wpc[w] = "amlRead"
    /\ IF failed \in Failures
       THEN /\ wret' = [wret EXCEPT ![w] = Translate(failed)]
            /\ wpc' = [wpc EXCEPT ![w] = "done"]
            /\ UNCHANGED <<authorAgreement, amlResponse, wtaa, signCalls>>
       ELSE LET agreement == FetchedAgreement(taaResponse[w], amlKeys)
            IN  /\ amlResponse' = [amlResponse EXCEPT ![w] = amlKeys]
                /\ authorAgreement' = [authorAgreement EXCEPT ![wpool[w].id] = agreement]
                /\ AppendTaaAndSign(w, wpool[w], agreement)
    /\ UNCHANGED <<pools, cache, rvars, xvars, wpool, wseen, taaResponse, wqueries, submitCalls>>

Signed(request) == [signed |-> request]

\* signRequest has its outcome; the signed request is handed to the pool.
SignRequest(w, outcome) ==
    /\ wpc[w] = "signing"
    /\ IF outcome = "ok"
       THEN /\ submitCalls' = [submitCalls EXCEPT ![w] = Append(@, Signed(signCalls[w][Len(signCalls[w])]))]
            /\ wpc' = [wpc EXCEPT ![w] = "submitting"]
            /\ UNCHANGED wret
       ELSE /\ wret' = [wret EXCEPT ![w] = Translate(outcome)]
            /\ wpc' = [wpc EXCEPT ![w] = "done"]
            /\ UNCHANGED submitCalls
    /\ UNCHANGED <<pools, cache, rvars, xvars, authorAgreement, wpool, wseen, taaResponse, amlResponse, wtaa, wqueries, signCalls>>

\* pool.submitWriteRequest has its outcome.
PoolSubmitWriteRequest(w, outcome) ==
    /\ wpc[w] = "submitting"
    /\ wret' = [wret EXCEPT ![w] =
                    IF outcome = "ok" THEN WriteOk(submitCalls[w][Len(submitCalls[w])])
                    ELSE Translate(outcome)]
    /\ wpc' = [wpc EXCEPT ![w] = "done"]
    /\ UNCHANGED <<pools, cache, rvars, xvars, authorAgreement, wpool, wseen, taaResponse, amlResponse, wtaa, wqueries,
                   signCalls, submitCalls>>

\* The caller has taken the result; the call's locals are gone.
ForgetWrite(w) ==
    /\ wpc[w] = "done"
    /\ wpc' = [wpc EXCEPT ![w] = "idle"]
    /\ wpool' = [wpool EXCEPT ![w] = NoValue]
    /\ wseen' = [wseen EXCEPT ![w] = NoValue]
    /\ taaResponse' = [taaResponse EXCEPT ![w] = NoValue]
    /\ amlResponse' = [amlResponse EXCEPT ![w] = {}]
    /\ wtaa' = [wtaa EXCEPT ![w] = NoValue]
    /\ wqueries' = [wqueries EXCEPT ![w] = 0]
    /\ signCalls' = [signCalls EXCEPT ![w] = <<>>]
    /\ submitCalls' = [submitCalls EXCEPT ![w] = <<>>]
    /\ wret' = [wret EXCEPT ![w] = NoValue]
    /\ UNCHANGED <<pools, cache, rvars, xvars, authorAgreement>>

\* ------------------------------------------------------------ connectToPools

\* The handle pool.connect() answers with.
PoolHandle(pool) == [handle |-> pool.id]

ConnectReturned(handles) == [kind |-> "ok", handles |-> handles]

\* The rejection of pool.connect() leaves connectToPools as it is: nothing catches it.
ConnectThrown(failure, pool) == [kind |-> "error", class |-> failure, from |-> pool.id]

\* Mutant: connect() is called on all pools at once (Promise.all over the pools).
ConnectingAllAtOnce(i, n) == IF i = 1 THEN 1..n ELSE {}

\* The pools whose connect() is called when the loop reaches position i of n pools:
\* the loop body calls it on that pool and awaits it.
Connecting(i, n) == IF i <= n THEN {i} ELSE {}

\* The call is made: the loop calls connect() on the first pool; without pools the
\* empty handleArray is returned.
ConnectToPools ==
    /\ cpc = "idle"
    /\ LET started == Connecting(1, Len(pools))
       IN  /\ attempts' = Ascending(started, Len(pools))
           /\ inProgress' = started
           /\ handleArray' = <<>>
           /\ IF started = {}
              THEN /\ cpc' = "done"
                   /\ cret' = ConnectReturned(<<>>)
              ELSE /\ cpc' = "connecting"
                   /\ UNCHANGED cret
    /\ UNCHANGED <<pools, cache, rvars, wvars, nspc, nsarg, nsret, sortpc, credentials, sorted>>

\* pool.connect() of pool i has its outcome. A handle is pushed and the loop goes on
\* to the next pool, or returns handleArray after the last; a rejection is thrown
\* by the await and ends the call.
PoolConnect(i, outcome) ==
    /\ cpc = "connecting"
    /\ i \in inProgress
    /\ IF outcome = "ok"
       THEN LET handles == Append(handleArray, PoolHandle(pools[i]))
                rest == inProgress \ {i}
                next == IF rest = {} THEN Connecting(Len(attempts) + 1, Len(pools)) ELSE {}
            IN  /\ handleArray' = handles
                /\ attempts' = attempts \o Ascending(next, Len(pools))
                /\ inProgress' = rest \cup next
                /\ IF rest \cup next = {}
                   THEN /\ cpc' = "done"
                        /\ cret' = ConnectReturned(handles)
                   ELSE UNCHANGED <<cpc, cret>>
       ELSE /\ cret' = ConnectThrown(outcome, pools[i])
            /\ cpc' = "done"
            /\ inProgress' = inProgress \ {i}
            /\ UNCHANGED <<attempts, handleArray>>
    /\ UNCHANGED <<pools, cache, rvars, wvars, nspc, nsarg, nsret, sortpc, credentials, sorted>>

\* The caller has taken the result; the call's locals are gone.
ForgetConnect ==
    /\ cpc = "done"
    /\ cpc' = "idle"
    /\ attempts' = <<>>
    /\ inProgress' = {}
    /\ handleArray' = <<>>
    /\ cret' = NoValue
    /\ UNCHANGED <<pools, cache, rvars, wvars, nspc, nsarg, nsret, sortpc, credentials, sorted>>

\* ------------------------------------------------------------ getPoolForNamespace

\* The namespaces pools are configured with.
Namespaces == {"ns1", "ns2"}

\* A string handed in as indyNamespace; undefined is NoValue.
Str(string) == [kind |-> "string", value |-> string]

\* What getPoolForNamespace is called with: nothing, the empty string, a configured
\* namespace.
NamespaceArguments == {NoValue} \cup {Str(ns) : ns \in Namespaces \cup {""}}

PoolConfigInNamespace(id, ns) == [PoolConfig(id, TRUE) EXCEPT !.indyNamespace = ns]

\* What setPools is called with by the namespace scenarios.
NamespacePoolLists ==
    {l \in DistinctLists({PoolConfigInNamespace(id, ns) : id \in PoolIds, ns \in Namespaces}, MaxPools) :
        HasDistinctIds(l)}

\* pool.didIndyNamespace
DidIndyNamespace(pool) == pool.indyNamespace

\* !indyNamespace: true of undefined and of the empty string.
Not(indyNamespace) == indyNamespace = NoValue \/ indyNamespace = Str("")

NamespaceReturned(pool) == [kind |-> "ok", pool |-> pool]

GetPoolForNamespace(list, indyNamespace) ==
    IF Len(list) = 0 THEN Thrown("IndySdkPoolNotConfiguredError", NoCause)
    ELSE IF Not(indyNamespace) THEN NamespaceReturned(list[1])
    ELSE LET pool == Find(SelectSeq(list, LAMBDA pool : DidIndyNamespace(pool) = indyNamespace.value))
         IN  IF pool = NoValue THEN Thrown("IndySdkPoolNotFoundError", NoCause)
             ELSE NamespaceReturned(pool)

\* getPoolForNamespace is called and answers (it is synchronous).
CallGetPoolForNamespace(indyNamespace) ==
    /\ nspc = "idle"
    /\ nspc' = "done"
    /\ nsarg' = indyNamespace
    /\ nsret' = GetPoolForNamespace(pools, indyNamespace)
    /\ UNCHANGED <<pools, cache, rvars, wvars, cpc, attempts, inProgress, handleArray, cret,
                   sortpc, credentials, sorted>>

\* The caller has taken the result.
ForgetNamespace ==
    /\ nspc = "done"
    /\ nspc' = "idle"
    /\ nsarg' = NoValue
    /\ nsret' = NoValue
    /\ UNCHANGED <<pools, cache, rvars, wvars, cpc, attempts, inProgress, handleArray, cret,
                   sortpc, credentials, sorted>>

\* ------------------------------------------------------------ sortRequestedCredentials

\* Longest array handed to sortRequestedCredentials.
MaxCredentials == 3

\* credential.revoked: undefined (NoValue), false or true.
Bool(b) == [kind |-> "boolean", value |-> b]

Revoked == {NoValue, Bool(FALSE), Bool(TRUE)}

\* A RequestedAttribute or RequestedPredicate.
RequestedCredential(id, revoked) == [credentialId |-> id, revoked |-> revoked]

RequestedCredentials == {RequestedCredential(id, r) : id \in {"cred1", "cred2"}, r \in Revoked}

RECURSIVE Arrays(_, _)
Arrays(S, n) ==
    IF n = 0 THEN {<<>>}
    ELSE LET shorter == Arrays(S, n - 1)
         IN  shorter \cup {Append(l, x) : l \in {m \in shorter : Len(m) = n - 1}, x \in S}

staySame == 0

credentialGoUp == -1

credentialGoDown == 1

\* Mutant: credentials with revoked false go below those with revoked true.
CompareRevokedFirst(credential, compareTo) ==
    IF credential.revoked = compareTo.revoked THEN staySame
    ELSE IF credential.revoked = NoValue THEN credentialGoUp
    ELSE IF compareTo.revoked = NoValue THEN credentialGoDown
    ELSE IF credential.revoked = Bool(FALSE) THEN credentialGoDown
    ELSE credentialGoUp

\* The compare function handed to sort.
Compare(credential, compareTo) ==
    IF credential.revoked = compareTo.revoked THEN staySame
    ELSE IF credential.revoked = NoValue THEN credentialGoUp
    ELSE IF compareTo.revoked = NoValue THEN credentialGoDown
    ELSE IF credential.revoked = Bool(FALSE) THEN credentialGoUp
    ELSE credentialGoDown

\* Array.prototype.sort with that compare function: a stable sort, here by insertion.
RECURSIVE Insert(_, _)
Insert(array, credential) ==
    IF array = <<>> THEN <<credential>>
    ELSE IF Compare(array[Len(array)], credential) > 0
         THEN Append(Insert(SubSeq(array, 1, Len(array) - 1), credential), array[Len(array)])
         ELSE Append(array, credential)

RECURSIVE ArraySort(_)
ArraySort(array) ==
    IF array = <<>> THEN <<>>
    ELSE Insert(ArraySort(SubSeq(array, 1, Len(array) - 1)), array[Len(array)])

\* sortRequestedCredentials: the array is cloned, the clone sorted and returned.
SortRequestedCredentials ==
    /\ sortpc = "idle"
    /\ LET credentialsClone == credentials
       IN  sorted' = ArraySort(credentialsClone)
    /\ sortpc' = "done"
    /\ UNCHANGED <<pools, cache, rvars, wvars, cpc, attempts, inProgress, handleArray, cret,
                   nspc, nsarg, nsret, credentials>>

\* ------------------------------------------------------------ specification

InitService ==
    /\ pools = <<>>
    /\ cache = [d \in Dids |-> NoValue]
    /\ rpc = [p \in Resolvers |-> "idle"]
    /\ rdid = [p \in Resolvers |-> CHOOSE d \in Dids : TRUE]
    /\ cachedNymResponse = [p \in Resolvers |-> NoValue]
    /\ rpool = [p \in Resolvers |-> NoValue]
    /\ didResponses = [p \in Resolvers |-> <<>>]
    /\ settleOrder = [p \in Resolvers |-> <<>>]
    /\ queries = [p \in Resolvers |-> <<>>]
    /\ value = [p \in Resolvers |-> NoValue]
    /\ ret = [p \in Resolvers |-> NoValue]
    /\ after = [p \in Resolvers |-> {}]
    /\ chosen = [d \in Dids |-> {}]
    /\ authorAgreement = [id \in PoolIds |-> NoValue]
    /\ wpc = [w \in Writers |-> "idle"]
    /\ wpool = [w \in Writers |-> NoValue]
    /\ wseen = [w \in Writers |-> NoValue]
    /\ taaResponse = [w \in Writers |-> NoValue]
    /\ amlResponse = [w \in Writers |-> {}]
    /\ wtaa = [w \in Writers |-> NoValue]
    /\ wqueries = [w \in Writers |-> 0]
    /\ signCalls = [w \in Writers |-> <<>>]
    /\ submitCalls = [w \in Writers |-> <<>>]
    /\ wret = [w \in Writers |-> NoValue]
    /\ cpc = "idle"
    /\ attempts = <<>>
    /\ inProgress = {}
    /\ handleArray = <<>>
    /\ cret = NoValue
    /\ nspc = "idle"
    /\ nsarg = NoValue
    /\ nsret = NoValue
    /\ sortpc = "idle"
    /\ sorted = <<>>

\* The service after construction; nothing has been handed to
\* sortRequestedCredentials.
Init == InitService /\ credentials = <<>>

\* One step of the resolution engine, for the given callers and pool lists.
Resolution(callers, lists, dids) ==
    \/ \E poolConfigs \in lists : SetPools(poolConfigs)
    \/ \E p \in callers, did \in dids : GetPoolForDid(p, did)
    \/ \E p \in callers : CacheGet(p)
    \/ \E p \in callers, i \in 1..MaxPools, outcome \in ReadOutcomes : SettleDidFromPool(p, i, outcome)
    \/ \E p \in callers : ChooseResponse(p)
    \/ \E p \in callers : CacheSet(p)
    \/ \E p \in callers : Forget(p)

\* Resolutions made one after the other, over every pool list.
Next == Resolution({"r1"}, ResolvePoolLists, Dids)

Spec == Init /\ [][Next]_vars

\* Overlapping resolutions, over the lists of two pools.
ConcurrentPoolLists == {l \in ResolvePoolLists : PoolIdsOf(l) \subseteq {"A", "B"}}

NextConcurrent == Resolution(Resolvers, ConcurrentPoolLists, Dids)

SpecConcurrent == Init /\ [][NextConcurrent]_vars

\* The write path: overlapping submitWriteRequest calls on the configured pools.
NextWrite ==
    \/ \E poolConfigs \in WritePoolLists : SetPools(poolConfigs)
    \/ \E w \in Writers, i \in 1..MaxPools : SubmitWriteRequest(w, i)
    \/ \E w \in Writers, failed \in {"ok"} \cup Failures, taaData \in TaaData : TaaRead(w, failed, taaData)
    \/ \E w \in Writers, failed \in {"ok"} \cup Failures, amlKeys \in AmlKeySets : AmlRead(w, failed, amlKeys)
    \/ \E w \in Writers, outcome \in {"ok"} \cup Failures : SignRequest(w, outcome)
    \/ \E w \in Writers, outcome \in {"ok"} \cup Failures : PoolSubmitWriteRequest(w, outcome)
    \/ \E w \in Writers : ForgetWrite(w)

SpecWrite == Init /\ [][NextWrite]_vars

\* Startup: connectToPools over every pool list.
NextConnect ==
    \/ \E poolConfigs \in ResolvePoolLists : SetPools(poolConfigs)
    \/ ConnectToPools
    \/ \E i \in 1..MaxPools, outcome \in {"ok"} \cup Failures : PoolConnect(i, outcome)
    \/ ForgetConnect

SpecConnect == Init /\ [][NextConnect]_vars

\* Every connect() that was called answers, with a handle or with a rejection.
SpecConnectFair == SpecConnect /\ WF_vars(\E i \in 1..MaxPools, outcome \in {"ok"} \cup Failures : PoolConnect(i, outcome))

\* The choice of a pool by namespace, over pool lists with namespaces.
NextNamespace ==
    \/ \E poolConfigs \in NamespacePoolLists : SetPools(poolConfigs)
    \/ \E indyNamespace \in NamespaceArguments : CallGetPoolForNamespace(indyNamespace)
    \/ ForgetNamespace

SpecNamespace == Init /\ [][NextNamespace]_vars

\* sortRequestedCredentials applied to every array of up to MaxCredentials credentials.
InitSort == InitService /\ credentials \in Arrays(RequestedCredentials, MaxCredentials)

NextSort == SortRequestedCredentials

SpecSort == InitSort /\ [][NextSort]_vars

\* ------------------------------------------------------------ resolution: what is checked

Range(s) == {s[i] : i \in 1..Len(s)}

Least(S) == CHOOSE x \in S : \A y \in S : x <= y

\* The call went through the fan-out (a cache miss with pools configured).
FannedOut(p) == didResponses[p] # <<>>

\* The call went through the fan-out and has returned or thrown.
Missed(p) == rpc[p] = "done" /\ FannedOut(p)

Succeeded(p) == {i \in Indices(didResponses[p]) : didResponses[p][i].status = "fulfilled"}

Failed(p) == {i \in Indices(didResponses[p]) : didResponses[p][i].status = "rejected"}

SelfCertified(p) ==
    {i \in Succeeded(p) : IsSelfCertifiedDid(didResponses[p][i].value.did.did,
                                             didResponses[p][i].value.did.verkey)}

OnProduction(p) == {i \in Succeeded(p) : pools[i].isProduction}

NotFoundOn(p) == {i \in Failed(p) : didResponses[p][i].reason.class = "IndySdkPoolNotFoundError"}

\* The call returned the record and the pool of its i-th getDidFromPool, which is
\* the i-th configured pool.
ReturnedFrom(p, i) ==
    /\ ret[p] = Returned(didResponses[p][i].value.did, didResponses[p][i].value.pool)
    /\ ret[p].pool = pools[i]
    /\ ret[p].did.reply = pools[i].id

\* C1: on a cache miss with at least one self-certified success, the call returns
\* the record and the pool of the first self-certified success in configured pool
\* order, whatever the production flags and the outcomes of the other pools.
C1_SelfCertifiedFirst ==
    \A p \in Resolvers :
        (Missed(p) /\ SelfCertified(p) # {}) => ReturnedFrom(p, Least(SelfCertified(p)))

\* A production pool standing first answered with a record that is not
\* self-certified, a non-production pool after it with a self-certified one, and
\* the second was returned.
C1_Witness ==
    \E p \in Resolvers :
        /\ Missed(p)
        /\ Len(pools) >= 2
        /\ pools[1].isProduction /\ ~pools[2].isProduction
        /\ 1 \in Succeeded(p) \ SelfCertified(p)
        /\ Least(SelfCertified(p) \cup {MaxPools + 1}) = 2
        /\ ReturnedFrom(p, 2)

\* C2: on a cache miss where no success is self-certified and a production pool
\* succeeded, the returned record is that of a production pool that succeeded; a
\* non-production pool's record is returned only when no production pool succeeded.
C2_ProductionPreferred ==
    \A p \in Resolvers :
        (Missed(p) /\ SelfCertified(p) = {} /\ Succeeded(p) # {}) =>
            /\ ret[p].kind = "ok"
            /\ \E i \in Succeeded(p) : ReturnedFrom(p, i)
            /\ OnProduction(p) # {} => \E i \in OnProduction(p) : ReturnedFrom(p, i)
            /\ ~ret[p].pool.isProduction => OnProduction(p) = {}

\* A non-production pool standing first and a production pool after it both answered
\* with a record that is not self-certified, and the production pool's was returned.
C2_Witness ==
    \E p \in Resolvers :
        /\ Missed(p)
        /\ SelfCertified(p) = {}
        /\ Len(pools) >= 2
        /\ ~pools[1].isProduction /\ pools[2].isProduction
        /\ {1, 2} \subseteq Succeeded(p)
        /\ ReturnedFrom(p, 2)

\* The candidates the choice is restricted to: the self-certified successes, else the
\* successes of production pools, else all successes.
Restricted(p) ==
    IF SelfCertified(p) # {} THEN SelfCertified(p)
    ELSE IF OnProduction(p) # {} THEN OnProduction(p)
    ELSE Succeeded(p)

\* C3: the pool returned is a function of the per-pool outcomes and of the configured
\* order alone: it is the first candidate of the restricted set in configured pool
\* order, in whatever order the reads settled.
C3_SettleOrderIrrelevant ==
    \A p \in Resolvers :
        (Missed(p) /\ Succeeded(p) # {}) => ReturnedFrom(p, Least(Restricted(p)))

\* The second pool's read settled before the first pool's, both candidates of the
\* same kind, and the first pool was returned.
C3_Witness ==
    \E p \in Resolvers :
        /\ Missed(p)
        /\ {1, 2} \subseteq Restricted(p)
        /\ queries[p][1] = 1 /\ queries[p][2] = 1
        /\ settleOrder[p][1] = 2
        /\ ReturnedFrom(p, 1)

\* C4: when the read of every configured pool ends not found, the call throws
\* IndySdkPoolNotFoundError and nothing else.
C4_AllNotFound ==
    \A p \in Resolvers :
        (Missed(p) /\ NotFoundOn(p) = Indices(didResponses[p])) =>
            ret[p] = Thrown("IndySdkPoolNotFoundError", NoCause)

\* Two pools were read, both ended not found, and the call threw.
C4_Witness ==
    \E p \in Resolvers :
        /\ Missed(p)
        /\ Len(didResponses[p]) >= 2
        /\ NotFoundOn(p) = Indices(didResponses[p])
        /\ \A i \in Indices(queries[p]) : queries[p][i] = 1
        /\ ret[p].kind = "error"

\* C5: when no pool succeeded and some failure is not a not-found, the call throws
\* IndySdkPoolError (not the not-found error) whose cause is the failure of the first
\* pool in configured order that failed otherwise than by not found.
C5_FirstOtherFailure ==
    \A p \in Resolvers :
        (Missed(p) /\ Succeeded(p) = {} /\ Failed(p) \ NotFoundOn(p) # {}) =>
            LET first == Least(Failed(p) \ NotFoundOn(p))
            IN  /\ ret[p] = Thrown("IndySdkPoolError", didResponses[p][first].reason)
                /\ ret[p].cause.from = pools[first].id

\* The first pool ended not found, the second failed otherwise, and the cause
\* wrapped is the second pool's failure.
C5_Witness ==
    \E p \in Resolvers :
        /\ Missed(p)
        /\ Len(didResponses[p]) >= 2
        /\ 1 \in NotFoundOn(p)
        /\ 2 \in Failed(p) \ NotFoundOn(p)
        /\ ret[p].kind = "error" /\ ret[p].class = "IndySdkPoolError"
        /\ ret[p].cause.from = pools[2].id

\* C6: when exactly one configured pool found the did (the others failing in any
\* way), the call returns that pool's record with that pool, and the cache entry of
\* the did then holds that record with that pool's id, whatever it held before.
C6_SinglePoolCached ==
    \A p \in Resolvers :
        (Missed(p) /\ Cardinality(Succeeded(p)) = 1) =>
            LET i == Least(Succeeded(p))
            IN  /\ ReturnedFrom(p, i)
                /\ cache[rdid[p]] = CachedDidResponse(didResponses[p][i].value.did, pools[i].id)

\* The second of two pools alone found the did, while the cache held an entry of a
\* pool that is no longer configured; the entry now names the second pool.
C6_Witness ==
    \E p \in Resolvers :
        /\ Missed(p)
        /\ Len(pools) >= 2
        /\ Succeeded(p) = {2}
        /\ cachedNymResponse[p] # NoValue
        /\ cachedNymResponse[p].poolId # pools[2].id
        /\ cache[rdid[p]].poolId = pools[2].id
        /\ ret[p].kind = "ok"

\* The cache lookup of the call found a response whose pool was configured.
FoundInCache(p) == cachedNymResponse[p] # NoValue /\ rpool[p] # NoValue

\* C7 as stated: a call made after a call for the same did has returned a pool, and
\* while that pool has been configured ever since, submits no read request.
C7_Original ==
    \A p \in Resolvers :
        (rpc[p] # "idle" /\ after[p] # {}) => ~FannedOut(p)

\* C7, amended: once a call has returned for a did the cache holds an entry for it;
\* a call whose cache lookup finds an entry whose pool is configured submits no read
\* request and returns the record of that entry with the configured pool of that id,
\* and such a call never fans out.
C7_CacheShortCircuit ==
    /\ \A p \in Resolvers :
          (rpc[p] = "done" /\ ret[p].kind = "ok") => cache[rdid[p]] # NoValue
    /\ \A d \in Dids : chosen[d] # {} => cache[d] # NoValue
    /\ \A p \in Resolvers :
          (rpc[p] \in {"settling", "set", "done"} /\ cachedNymResponse[p] # NoValue
              /\ cachedNymResponse[p].poolId \in PoolIdsOf(pools)) =>
                /\ rpc[p] = "done"
                /\ ~FannedOut(p)
                /\ queries[p] = <<>>
                /\ ret[p].kind = "ok"
                /\ ret[p].did = cachedNymResponse[p].nymResponse
                /\ ret[p].pool \in Range(pools)
                /\ ret[p].pool.id = cachedNymResponse[p].poolId

\* A call made after an earlier call had returned pool A was served from the cache,
\* without a read request, although pool A is not the pool of the cached entry.
C7_Witness ==
    \E p \in Resolvers :
        /\ rpc[p] = "done"
        /\ after[p] # {}
        /\ FoundInCache(p)
        /\ queries[p] = <<>>
        /\ ret[p].kind = "ok"
        /\ ret[p].pool.id \notin after[p]

\* C8: a cached response is returned only when its pool id is that of a configured
\* pool; a call that finds a cached response whose pool is no longer configured fans
\* out to every configured pool like a call that finds none, and the pool a call
\* returns is one of the configured pools.
C8_NoStalePool ==
    \A p \in Resolvers :
        /\ (rpc[p] = "done" /\ ret[p].kind = "ok") => ret[p].pool \in Range(pools)
        /\ (rpc[p] = "done" /\ ret[p].kind = "ok" /\ ~FannedOut(p)) =>
                /\ cachedNymResponse[p] # NoValue
                /\ cachedNymResponse[p].poolId \in PoolIdsOf(pools)
        /\ (rpc[p] \in {"settling", "set", "done"} /\ cachedNymResponse[p] # NoValue
              /\ cachedNymResponse[p].poolId \notin PoolIdsOf(pools)) =>
                /\ FannedOut(p)
                /\ Len(didResponses[p]) = Len(pools)
                /\ rpool[p] = NoValue

\* After setPools had removed the pool of the cached response, a call fanned out and
\* returned a configured pool.
C8_Witness ==
    \E p \in Resolvers :
        /\ Missed(p)
        /\ cachedNymResponse[p] # NoValue
        /\ cachedNymResponse[p].poolId \notin PoolIdsOf(pools)
        /\ ret[p].kind = "ok"
        /\ ret[p].pool \in Range(pools)

\* No read of the call is pending.
NonePending(p) == \A i \in Indices(didResponses[p]) : didResponses[p][i] # Pending

\* C9 as stated: on a cache miss exactly one read request is submitted to each
\* configured pool.
C9_Original ==
    \A p \in Resolvers :
        FannedOut(p) => \A i \in Indices(pools) : queries[p][i] = 1

\* The read of pool i was never submitted: its getDidFromPool rejected while building
\* the request.
NotSubmitted(p, i) ==
    /\ queries[p][i] = 0
    /\ didResponses[p][i] = Rejected(ErrorFrom("IndySdkError", pools[i].id))

\* C9, amended: on a cache miss one getDidFromPool is started for each configured
\* pool; each submits one read request, or none when building the request fails, and
\* never more; nothing is chosen, written to the cache, returned or thrown before all
\* of them have settled.
C9_WaitsForAll ==
    /\ [](\A p \in Resolvers :
             FannedOut(p) =>
               /\ Len(didResponses[p]) = Len(pools)
               /\ Len(queries[p]) = Len(pools)
               /\ \A i \in Indices(pools) : queries[p][i] = 1 \/ NotSubmitted(p, i)
               /\ ~NonePending(p) =>
                     /\ rpc[p] = "settling"
                     /\ value[p] = NoValue
                     /\ ret[p] = NoValue)
    /\ [][\A d \in Dids : cache'[d] # cache[d] =>
              \E p \in Resolvers : /\ rdid[p] = d
                                   /\ FannedOut(p)
                                   /\ NonePending(p)
                                   /\ rpc'[p] = "done"
                                   /\ cache'[d] = CachedDidResponse(ret'[p].did, ret'[p].pool.id)]_vars

\* The first pool had answered with a record while the read of the second was still
\* pending, and nothing was chosen; and a call returned after both had settled.
C9_Witness ==
    \E p \in Resolvers :
        /\ Len(pools) >= 2
        /\ rpc[p] = "settling"
        /\ 1 \in Succeeded(p)
        /\ didResponses[p][2] = Pending
        /\ queries[p] = <<1, 1>>

\* C17: a call made while no pool is configured throws
\* IndySdkPoolNotConfiguredError in the step it is made: the cache is neither read nor
\* written and no read request is submitted, also when the cache holds a response
\* for the did.
C17_NotConfigured ==
    /\ [](\A p \in Resolvers :
             (rpc[p] # "idle" /\ pools = <<>>) =>
                 /\ rpc[p] = "done"
                 /\ ret[p] = Thrown("IndySdkPoolNotConfiguredError", NoCause)
                 /\ cachedNymResponse[p] = NoValue
                 /\ didResponses[p] = <<>>
                 /\ queries[p] = <<>>
                 /\ value[p] = NoValue)
    /\ [][\A p \in Resolvers :
            (rpc[p] = "idle" /\ rpc'[p] # "idle" /\ pools = <<>>) =>
                /\ rpc'[p] = "done"
                /\ cache' = cache]_vars

\* The call threw while the cache held a response for its did, left there by a call
\* made when pools were configured.
C17_Witness ==
    \E p \in Resolvers :
        /\ pools = <<>>
        /\ rpc[p] = "done"
        /\ ret[p] = Thrown("IndySdkPoolNotConfiguredError", NoCause)
        /\ cache[rdid[p]] # NoValue
        /\ cachedNymResponse[p] = NoValue

\* ------------------------------------------------------------ write path: what is checked

\* The author agreement the call validated against is present and the pool's
\* configuration does not match it: another version, or a mechanism that is not one
\* of the agreement's acceptance mechanisms.
TaaMismatched(w) ==
    /\ wpc[w] # "idle"
    /\ wtaa[w].kind = "taa"
    /\ wpool[w].transactionAuthorAgreement # NoTaaConfig
    /\ \/ wpool[w].transactionAuthorAgreement.version # wtaa[w].version
       \/ wpool[w].transactionAuthorAgreement.acceptanceMechanism
              \notin wtaa[w].acceptanceMechanisms.aml

\* C10: when the author agreement is present and the configured version differs from
\* its version, or the configured mechanism is not among its acceptance mechanisms,
\* the call throws the mismatch error and neither signRequest nor
\* pool.submitWriteRequest is called.
C10_MismatchNeverSigns ==
    \A w \in Writers :
        TaaMismatched(w) =>
            /\ wpc[w] = "done"
            /\ wret[w] = WriteThrown("IndySdkPoolError", "Unable to satisfy matching TAA")
            /\ signCalls[w] = <<>>
            /\ submitCalls[w] = <<>>

\* The call has its author agreement from getTransactionAuthorAgreement.
HasAgreement(w) == wpc[w] # "idle" /\ wtaa[w] # NoValue

\* C11: when the author agreement of the pool is present and the pool has no author
\* agreement configuration, the call throws the error that asks for one (not the
\* mismatch error) before anything is appended, and neither signRequest nor
\* pool.submitWriteRequest is called.
C11_ConfigurationRequired ==
    \A w \in Writers :
        (HasAgreement(w) /\ wtaa[w].kind = "taa"
            /\ wpool[w].transactionAuthorAgreement = NoTaaConfig) =>
            /\ wpc[w] = "done"
            /\ wret[w].kind = "error"
            /\ wret[w].class = "IndySdkPoolError"
            /\ wret[w].message =
                  "Please, specify a transaction author agreement with version and acceptance mechanism"
            /\ wret[w].message # "Unable to satisfy matching TAA"
            /\ signCalls[w] = <<>>
            /\ submitCalls[w] = <<>>

\* A call on a pool without configuration fetched an agreement that is present and
\* threw.
C11_Witness ==
    \E w \in Writers :
        /\ wpc[w] = "done"
        /\ wqueries[w] = 2
        /\ wtaa[w].kind = "taa"
        /\ wpool[w].transactionAuthorAgreement = NoTaaConfig
        /\ wret[w].kind = "error"

\* C12: when the ledger has no author agreement (pool.authorAgreement is null), with
\* or without an author agreement configuration on the pool, signRequest is called
\* once, with the request of the caller as it was handed in; pool.submitWriteRequest
\* is called once signing has answered, once, with that signed request, and no
\* author agreement error is thrown.
C12_NoAgreementUnmodified ==
    \A w \in Writers :
        (HasAgreement(w) /\ wtaa[w] = Null) =>
            /\ signCalls[w] = <<LedgerRequest>>
            /\ LedgerRequest.taaAcceptance = NoValue
            /\ wpc[w] \in {"signing", "submitting", "done"}
            /\ wpc[w] = "signing" => submitCalls[w] = <<>>
            /\ wpc[w] = "submitting" => submitCalls[w] = <<Signed(LedgerRequest)>>
            /\ wpc[w] = "done" =>
                  \/ wret[w] = WriteOk(Signed(LedgerRequest)) /\ submitCalls[w] = <<Signed(LedgerRequest)>>
                  \/ wret[w] \in {Translate(f) : f \in Failures}
                        /\ submitCalls[w] \in {<<>>, <<Signed(LedgerRequest)>>}

\* A call on a pool with an author agreement configuration found that the ledger has
\* none, and the request of the caller was signed and submitted as it was.
C12_Witness ==
    \E w \in Writers :
        /\ wpc[w] = "done"
        /\ wtaa[w] = Null
        /\ wpool[w].transactionAuthorAgreement # NoTaaConfig
        /\ wret[w] = WriteOk(Signed(LedgerRequest))
        /\ signCalls[w] = <<LedgerRequest>>
        /\ submitCalls[w] = <<Signed(LedgerRequest)>>

\* The call submitted a read request for the author agreement in this step.
QueriesAgreement(w) == wqueries'[w] > wqueries[w]

\* C13 as stated: once pool.authorAgreement of a pool is set (to an agreement or to
\* null), no call submits an author agreement read request to that pool any more,
\* whether the call was made later or was running at that moment.
C13_Original ==
    [][\A w \in Writers : QueriesAgreement(w) => authorAgreement[wpool'[w].id] = NoValue]_vars

\* C13, amended: a call made when pool.authorAgreement of its pool is set (to an
\* agreement or to null) submits no author agreement read request and uses the value
\* it found; read requests come only from calls that were made while it was
\* undefined, at most two from each.
C13_NoRefetch ==
    /\ [](\A w \in Writers :
             /\ wqueries[w] \in 0..2
             /\ (wpc[w] # "idle" /\ wseen[w] # NoValue) =>
                   /\ wqueries[w] = 0
                   /\ wtaa[w] = wseen[w])
    /\ [][\A w \in Writers :
            /\ (wpc[w] = "idle" /\ wpc'[w] # "idle") => wseen'[w] = authorAgreement[wpool'[w].id]
            /\ QueriesAgreement(w) => wseen'[w] = NoValue]_vars

\* A call found the null that an earlier fetch had stored and went on to signing
\* without a read request.
C13_Witness ==
    \E w \in Writers :
        /\ wpc[w] = "signing"
        /\ wseen[w] = Null
        /\ wqueries[w] = 0
        /\ wtaa[w] = Null

\* The call has fetched the author agreement itself: both read requests were
\* submitted and answered.
Fetched(w) == HasAgreement(w) /\ wqueries[w] = 2

\* What one fetch that gets the answers of the call stores in pool.authorAgreement.
SingleFetch(w) ==
    IF taaResponse[w] = Null THEN Null
    ELSE [kind |-> "taa", version |-> taaResponse[w].version,
          acceptanceMechanisms |-> [aml |-> amlResponse[w]]]

\* C19: when two calls on the same pool both fetch the author agreement (both were
\* made while pool.authorAgreement was undefined) and the pool gave both the same
\* answers, pool.authorAgreement after both assignments is what a single fetch
\* stores, and both calls validate against that value.
C19_RedundantFetchIdempotent ==
    \A w1, w2 \in Writers :
        (/\ w1 # w2
         /\ Fetched(w1) /\ Fetched(w2)
         /\ wpool[w1].id = wpool[w2].id
         /\ taaResponse[w1] = taaResponse[w2]
         /\ amlResponse[w1] = amlResponse[w2]) =>
            /\ authorAgreement[wpool[w1].id] = SingleFetch(w1)
            /\ wtaa[w1] = SingleFetch(w1)
            /\ wtaa[w2] = SingleFetch(w1)

\* Two calls on pool A were both made before the agreement was fetched, both
\* submitted the two read requests, got the same agreement and stored it.
C19_Witness ==
    /\ Fetched("w1") /\ Fetched("w2")
    /\ wseen["w1"] = NoValue /\ wseen["w2"] = NoValue
    /\ wpool["w1"].id = "A" /\ wpool["w2"].id = "A"
    /\ taaResponse["w1"] = taaResponse["w2"]
    /\ taaResponse["w1"] # Null
    /\ amlResponse["w1"] = amlResponse["w2"]
    /\ authorAgreement["A"] = wtaa["w1"]

\* ------------------------------------------------------------ overlapping resolutions: what is checked

\* The call missed the cache, chose a response and wrote it to the cache.
Wrote(p) == Missed(p) /\ ret[p].kind = "ok"

\* The cache entry the call wrote.
Written(p) == CachedDidResponse(ret[p].did, ret[p].pool.id)

\* C20 as stated: when two calls for the same did both miss the cache and both write
\* it, they write the same entry.
C20_Original ==
    \A p, q \in Resolvers :
        (Wrote(p) /\ Wrote(q) /\ rdid[p] = rdid[q]) => Written(p) = Written(q)

\* C20, amended: when two calls for the same did both miss the cache and every pool
\* gave both calls the same outcome, both write the same entry and the cache holds
\* it after both, whichever wrote last and in whatever order the reads settled.
C20_SameOutcomesSameEntry ==
    \A p, q \in Resolvers :
        (p # q /\ Wrote(p) /\ Wrote(q) /\ rdid[p] = rdid[q]
            /\ didResponses[p] = didResponses[q]) =>
            /\ Written(p) = Written(q)
            /\ cache[rdid[p]] = Written(p)

\* Two calls overlapped on two pools that answered both with the same records; their
\* reads settled in different orders and both wrote the entry of the first pool.
C20_Witness ==
    /\ Wrote("r1") /\ Wrote("r2")
    /\ Len(pools) = 2
    /\ Succeeded("r1") = {1, 2}
    /\ didResponses["r1"] = didResponses["r2"]
    /\ settleOrder["r1"] = <<1, 2>>
    /\ settleOrder["r2"] = <<2, 1>>
    /\ cache[rdid["r1"]] = Written("r1")
    /\ Written("r1") = Written("r2")

\* ------------------------------------------------------------ connectToPools: what is checked

\* C14: connectToPools calls connect() on the pools in the order of the pool list,
\* one at a time: at most one connect() is unanswered at any moment, and connect() of
\* the next pool is called only in the step in which the one before it has answered.
C14_SequentialConnect ==
    /\ [](/\ Cardinality(inProgress) <= 1
          /\ Len(attempts) <= Len(pools)
          /\ \A k \in 1..Len(attempts) : attempts[k] = k
          /\ inProgress \subseteq {Len(attempts)}
          /\ cpc = "connecting" =>
                /\ inProgress = {Len(attempts)}
                /\ handleArray = [k \in 1..(Len(attempts) - 1) |-> PoolHandle(pools[k])])
    /\ [][Len(attempts') > Len(attempts) =>
            /\ attempts' = Append(attempts, Len(attempts) + 1)
            /\ inProgress' = {Len(attempts) + 1}
            /\ Len(attempts) > 0 => /\ inProgress = {Len(attempts)}
                                    /\ Len(handleArray') = Len(attempts)]_vars

\* The first pool has answered with its handle and connect() of the second is the
\* only one unanswered.
C14_Witness ==
    /\ cpc = "connecting"
    /\ Len(pools) = 2
    /\ attempts = <<1, 2>>
    /\ inProgress = {2}
    /\ handleArray = <<PoolHandle(pools[1])>>

\* C15: whichever pools failed to connect, once connectToPools is called connect()
\* is eventually called on every configured pool.
C15_EveryPoolAttempted ==
    \A i \in 1..MaxPools :
        [](cpc = "connecting" /\ i <= Len(pools) => <>(i \in Range(attempts)))

\* ------------------------------------------------------------ getPoolForNamespace: what is checked

\* The positions of the pools configured with the namespace.
InNamespace(ns) == {i \in Indices(pools) : pools[i].indyNamespace = ns}

\* C16: with pools configured getPoolForNamespace returns the first pool of the list
\* whose namespace is the given one, the first pool when no namespace is given, and
\* throws IndySdkPoolNotFoundError when a namespace is given that no pool has;
\* without pools it throws IndySdkPoolNotConfiguredError, with or without a namespace.
C16_PoolByNamespace ==
    nspc = "done" =>
        IF pools = <<>> THEN nsret = Thrown("IndySdkPoolNotConfiguredError", NoCause)
        ELSE IF nsarg = NoValue THEN nsret = NamespaceReturned(pools[1])
        ELSE IF InNamespace(nsarg.value) # {}
             THEN nsret = NamespaceReturned(pools[Least(InNamespace(nsarg.value))])
        ELSE nsret = Thrown("IndySdkPoolNotFoundError", NoCause)

\* The same for every argument but the empty string.
C16_ButEmptyString ==
    (nspc = "done" /\ nsarg # Str("")) => C16_PoolByNamespace

\* The second pool was returned for its namespace.
C16_Witness ==
    /\ nspc = "done"
    /\ Len(pools) = 2
    /\ nsarg # NoValue
    /\ InNamespace(nsarg.value) = {2}
    /\ nsret = NamespaceReturned(pools[2])

\* ------------------------------------------------------------ sortRequestedCredentials: what is checked

\* Array b holds the elements of array a, each as often as a does.
IsPermutation(a, b) ==
    /\ Len(a) = Len(b)
    /\ \E f \in [1..Len(a) -> 1..Len(a)] :
          /\ \A i, j \in 1..Len(a) : f[i] = f[j] => i = j
          /\ \A i \in 1..Len(a) : b[i] = a[f[i]]

\* The place of a revoked value in the order: undefined, false, true.
Rank(revoked) == IF revoked = NoValue THEN 0 ELSE IF revoked = Bool(FALSE) THEN 1 ELSE 2

\* C18: sortRequestedCredentials returns an array that is a permutation of the one
\* handed in, in which every credential with revoked undefined stands before
\* every one with revoked false, and those before every one with revoked true; the
\* array handed in is not changed.
C18_SortedByRevoked ==
    /\ [](sortpc = "done" =>
            /\ IsPermutation(credentials, sorted)
            /\ \A i, j \in 1..Len(sorted) :
                  i < j => Rank(sorted[i].revoked) <= Rank(sorted[j].revoked))
    /\ [][credentials' = credentials]_vars

\* An array in the opposite order (true, false, undefined) was sorted.
C18_Witness ==
    /\ sortpc = "done"
    /\ Len(credentials) = 3
    /\ credentials[1].revoked = Bool(TRUE)
    /\ credentials[2].revoked = Bool(FALSE)
    /\ credentials[3].revoked = NoValue
    /\ sorted = <<credentials[3], credentials[2], credentials[1]>>

\* ------------------------------------------------------------ the cache: what is checked

\* The call ends in this step.
Ends(p) == rpc[p] # "done" /\ rpc'[p] = "done"

\* C21: a call that throws (IndySdkPoolNotFoundError, IndySdkPoolError,
\* IndySdkPoolNotConfiguredError) ends in a step that leaves the cache as it is, and
\* so does a call that returns the cached response; the cache is written only in
\* the step in which a call that chose among successful responses returns, and
\* only under the did of that call, with the entry of the chosen response.
C21_CacheWrittenOnSuccessOnly ==
    [][/\ \A p \in Resolvers :
            /\ (Ends(p) /\ ret'[p].kind = "error") => cache' = cache
            /\ (Ends(p) /\ ret'[p].kind = "ok" /\ didResponses'[p] = <<>>) => cache' = cache
       /\ \A d \in Dids :
            cache'[d] # cache[d] =>
                \E p \in Resolvers :
                    /\ rdid[p] = d
                    /\ rpc[p] = "set"
                    /\ Ends(p)
                    /\ Succeeded(p) # {}
                    /\ ret'[p] = Returned(value[p].did, value[p].pool)
                    /\ cache'[d] = CachedDidResponse(value[p].did, value[p].pool.id)]_vars

\* A call fanned out and threw while the cache held the response an earlier call had
\* written, for a pool that is no longer configured.
C21_Witness ==
    \E p \in Resolvers :
        /\ Missed(p)
        /\ ret[p].kind = "error"
        /\ cachedNymResponse[p] # NoValue
        /\ cache[rdid[p]] = cachedNymResponse[p]
        /\ cache[rdid[p]].poolId \notin PoolIdsOf(pools)

\* ------------------------------------------------------------ pool.authorAgreement: what is checked

\* The call ends in this step without an author agreement: building or submitting
\* one of its two read requests failed.
FetchFails(w) == wpc[w] # "done" /\ wpc'[w] = "done" /\ wtaa'[w] = NoValue

\* No call takes a step and none is in flight: the step of setPools, which makes new
\* pool objects.
NoWriteStep == \A w \in Writers : wpc[w] = "idle" /\ wpc'[w] = "idle"

\* C22: when one of the two author agreement read requests of a call fails, the call
\* throws without calling signRequest or pool.submitWriteRequest and leaves
\* pool.authorAgreement as it is (undefined, unless another call has set it);
\* pool.authorAgreement of a pool goes from undefined to a value only in the step
\* in which the second read request of a call on that pool is answered, both having
\* succeeded; and once set (to an agreement or to null) it is not undefined again for
\* that pool object.
C22_FetchFailureKeepsUndefined ==
    /\ [](\A w \in Writers :
             (wpc[w] = "done" /\ wtaa[w] = NoValue) =>
                 /\ wseen[w] = NoValue
                 /\ wret[w] \in {Translate(f) : f \in Failures}
                 /\ signCalls[w] = <<>>
                 /\ submitCalls[w] = <<>>)
    /\ [][\A w \in Writers : FetchFails(w) => authorAgreement' = authorAgreement]_vars
    /\ [][\A id \in PoolIds :
            (authorAgreement[id] = NoValue /\ authorAgreement'[id] # NoValue) =>
                \E w \in Writers :
                    /\ wpc[w] = "amlRead"
                    /\ wpool[w].id = id
                    /\ wqueries[w] = 2
                    /\ taaResponse[w] # NoValue
                    /\ wtaa'[w] = authorAgreement'[id]
                    /\ authorAgreement'[id].kind \in {"null", "taa"}]_vars
    /\ [][\A id \in PoolIds :
            (authorAgreement[id] # NoValue /\ authorAgreement'[id] = NoValue) => NoWriteStep]_vars

\* The agreement query of a call was answered and its acceptance mechanisms query
\* failed: the call threw and pool.authorAgreement of its pool is undefined.
C22_Witness ==
    \E w \in Writers :
        /\ wpc[w] = "done"
        /\ wqueries[w] = 2
        /\ taaResponse[w] # NoValue
        /\ wtaa[w] = NoValue
        /\ wret[w].kind = "error"
        /\ authorAgreement[wpool[w].id] = NoValue

====
